---- MODULE Spec2Model ----
(***************************************************************************)
(* The speech-gated transcription pipeline of verbumcare-demo: one         *)
(* /transcribe request, served by one of the service variants              *)
(*   cpp_original  services/whisper-cpp-api-original.py                    *)
(*   cpp_vad       services/whisper-cpp-api-vad.py        (energy VAD)     *)
(*   cpp_silero    services/whisper-cpp-api-silero-vad.py (neural VAD)     *)
(*   faster        services/whisper-api.py                (in-process)     *)
(*   fixed         whisper-api-fixed.py                   (in-process)     *)
(* The handler is cut at its blocking calls: the converter and the engine  *)
(* are external processes whose exit (or hang) is the environment's move.  *)
(* Every return of the handler runs its finally block in the same step.    *)
(* os.unlink on the request's own temporary files is taken to succeed.     *)
(***************************************************************************)
EXTENDS Integers, Sequences, FiniteSets, TLC

VARIABLES
    variant,          \* which service file serves the request
    language,         \* Form field language
    initial_prompt,   \* Form field initial_prompt (optional)
    params,           \* Form fields of the decoding parameters
    pc,               \* position of the handler
    files,            \* temporary paths that exist on disk
    wavAudio,         \* content of the canonical WAV the converter wrote
    jsonDoc,          \* content of the JSON side-file the engine wrote
    modelOut,         \* what the in-process model returned
    speech_wav_path,  \* silero: the local variable speech_wav_path
    vad_info,         \* the VAD decision (energy_info / vad_info), optional
    detector,         \* silero: what the detector did on this request
    spliced,          \* silero: the timestamps given to collect_chunks
    vadInput,         \* silero: the samples given to the detector (optional)
    speechAudio,      \* silero: the samples written to _speech.wav (optional)
    decode,           \* faster: the parsed decoding parameters, optional
    convCalls,        \* number of converter invocations
    vadCalls,         \* number of VAD invocations
    engineCalls,      \* number of engine invocations
    engineInput,      \* the path given to the engine with -f (optional)
    enginePrompt,     \* the prompt given to the engine (optional)
    uploadResult,     \* how saving the upload ended
    convResult,       \* how the converter ended
    engineResult,     \* how the engine ended
    unlinks,          \* per path, how often os.unlink was called on it
    response,         \* what the request returned
    loopOwner,        \* concurrent requests: the handler that holds the event loop
    reqs,             \* concurrent requests: each request's position and paths
    disk              \* concurrent requests: the files in the temp directory

\* the state of the single request
pipeline == << variant, language, initial_prompt, params, pc, files, wavAudio,
               jsonDoc, modelOut, speech_wav_path, vad_info, detector, spliced,
               vadInput, speechAudio, decode, convCalls, vadCalls, engineCalls, engineInput,
               enginePrompt, uploadResult, convResult, engineResult, unlinks,
               response >>

\* the state of the requests that share the event loop
concurrent == << loopOwner, reqs, disk >>

vars == << pipeline, concurrent >>

----------------------------------------------------------------------------
(* Optional values (Python None / a missing dict key) are sets of at most  *)
(* one element.                                                            *)

None == {}

Some(x) == {x}

IsSome(o) == o # {}

Get(o) == CHOOSE x \in o : TRUE

----------------------------------------------------------------------------
(* Bounds of the model. *)

\* longest list of segments the engine emits
MaxSegs == 2

----------------------------------------------------------------------------
(* Program constants. *)

MIN_RMS_THRESHOLD == 200

\* MIN_SPEECH_RATIO = 0.01, kept as the denominator of 1/100
MIN_SPEECH_RATIO_DEN == 100

\* timeout= of the converter's subprocess.run, seconds
CONVERTER_TIMEOUT_S == 30

\* timeout= of the engine's subprocess.run, seconds
ENGINE_TIMEOUT_S == 120

\* no_speech_prob above which a segment is dropped, in hundredths
NO_SPEECH_DROP == 70

CppVariants == {"cpp_original", "cpp_vad", "cpp_silero"}

InProcessVariants == {"faster", "fixed"}

Variants == CppVariants \cup InProcessVariants

Paths == {"tmp", "wav", "json", "speech"}

----------------------------------------------------------------------------
(* Text: a string is a sequence of characters; " " stands for whitespace.  *)

RECURSIVE LStrip(_)
LStrip(s) == IF s # << >> /\ Head(s) = " " THEN LStrip(Tail(s)) ELSE s

RECURSIVE RStrip(_)
RStrip(s) ==
    IF s # << >> /\ s[Len(s)] = " " THEN RStrip(SubSeq(s, 1, Len(s) - 1)) ELSE s

\* a text handed on as it is
StripNothing(s) == s

\* str.strip()
Strip(s) == RStrip(LStrip(s))

\* a Python float holding ms/1000 seconds
Float(ms) == [type |-> "float", ms |-> ms, repr |-> ""]

\* a Python str
Str(text) == [type |-> "str", ms |-> 0, repr |-> text]

----------------------------------------------------------------------------
(* Canonical audio: the bytes after the 44-byte header, as runs of equal   *)
(* 16-bit samples, plus a possible trailing odd byte.                      *)

Run(val, count) == [val |-> val, count |-> count]

Audio(readable, runs, trailing) ==
    [readable |-> readable, runs |-> runs, trailing |-> trailing]

Abs(x) == IF x < 0 THEN -x ELSE x

Max(a, b) == IF a >= b THEN a ELSE b

RECURSIVE NumSamples(_)
NumSamples(runs) ==
    IF runs = << >> THEN 0 ELSE Head(runs).count + NumSamples(Tail(runs))

RECURSIVE SumSquares(_)
SumSquares(runs) ==
    IF runs = << >> THEN 0
    ELSE Head(runs).val * Head(runs).val * Head(runs).count + SumSquares(Tail(runs))

RECURSIVE Peak(_)
Peak(runs) ==
    IF runs = << >> THEN 0 ELSE Max(Abs(Head(runs).val), Peak(Tail(runs)))

RECURSIVE AboveThreshold(_)
AboveThreshold(runs) ==
    IF runs = << >> THEN 0
    ELSE (IF Abs(Head(runs).val) > MIN_RMS_THRESHOLD THEN Head(runs).count ELSE 0)
         + AboveThreshold(Tail(runs))

\* the payloads the pipeline is run on
PipelineAudio ==
    { Audio(TRUE, << Run(0, 320) >>, 0),                  \* silence
      Audio(TRUE, << Run(150, 320) >>, 0),                \* room noise
      Audio(TRUE, << Run(400, 320) >>, 0),                \* speech level
      Audio(TRUE, << Run(30000, 1), Run(0, 319) >>, 0),   \* one click
      Audio(TRUE, << >>, 0),                              \* header only
      Audio(TRUE, << >>, 1),                              \* 45-byte file
      Audio(TRUE, << Run(400, 320) >>, 1),                \* odd payload
      Audio(FALSE, << >>, 0) }                            \* cannot be opened

----------------------------------------------------------------------------
(* EnergyVADGate: calculate_audio_energy.  rms is kept as rms^2 =          *)
(* rms_sq_num / rms_sq_den and speech_ratio as ratio_num / ratio_den.      *)

EnergyInfo(sqn, sqd, peak, rn, rd, hs) ==
    [strategy |-> "energy", has_speech |-> hs, error |-> None,
     rms_sq_num |-> sqn, rms_sq_den |-> sqd, peak |-> peak,
     ratio_num |-> rn, ratio_den |-> rd]

\* the except branch: "If we can't calculate, assume there's speech"
EnergyOnError == EnergyInfo(0, 1, 0, 0, 1, TRUE)

\* a gate for which either test is enough
calculate_audio_energy_either(audio) ==
    LET num_samples == NumSamples(audio.runs)
    IN  EnergyInfo(SumSquares(audio.runs), num_samples, Peak(audio.runs),
                   AboveThreshold(audio.runs), num_samples,
                   \/ AboveThreshold(audio.runs) * MIN_SPEECH_RATIO_DEN >= num_samples
                   \/ SumSquares(audio.runs)
                        > MIN_RMS_THRESHOLD * MIN_RMS_THRESHOLD * num_samples)

\* a gate whose ratio test is strict
calculate_audio_energy_strict(audio) ==
    LET num_samples == NumSamples(audio.runs)
    IN  EnergyInfo(SumSquares(audio.runs), num_samples, Peak(audio.runs),
                   AboveThreshold(audio.runs), num_samples,
                   /\ AboveThreshold(audio.runs) * MIN_SPEECH_RATIO_DEN > num_samples
                   /\ SumSquares(audio.runs)
                        > MIN_RMS_THRESHOLD * MIN_RMS_THRESHOLD * num_samples)

\* a gate without the num_samples == 0 test: the division by zero lands in
\* the except branch
calculate_audio_energy_unguarded(audio) ==
    LET num_samples == NumSamples(audio.runs)
    IN  IF ~audio.readable \/ num_samples = 0 \/ audio.trailing # 0
        THEN EnergyOnError
        ELSE EnergyInfo(SumSquares(audio.runs), num_samples, Peak(audio.runs),
                        AboveThreshold(audio.runs), num_samples,
                        /\ AboveThreshold(audio.runs) * MIN_SPEECH_RATIO_DEN
                             >= num_samples
                        /\ SumSquares(audio.runs)
                             > MIN_RMS_THRESHOLD * MIN_RMS_THRESHOLD * num_samples)

calculate_audio_energy(audio) ==
    IF ~audio.readable THEN EnergyOnError
    ELSE
      LET len_data    == 2 * NumSamples(audio.runs) + audio.trailing
          num_samples == len_data \div 2
      IN  IF num_samples = 0 THEN EnergyInfo(0, 1, 0, 0, 1, FALSE)
          ELSE IF len_data # 2 * num_samples THEN EnergyOnError  \* struct.error
          ELSE
            LET sum_squares     == SumSquares(audio.runs)
                above_threshold == AboveThreshold(audio.runs)
                has_speech ==
                    /\ above_threshold * MIN_SPEECH_RATIO_DEN >= num_samples
                    /\ sum_squares > MIN_RMS_THRESHOLD * MIN_RMS_THRESHOLD * num_samples
            IN  EnergyInfo(sum_squares, num_samples, Peak(audio.runs),
                           above_threshold, num_samples, has_speech)

----------------------------------------------------------------------------
(* NeuralVADGate: extract_speech_segments.  The detector                   *)
(* (get_speech_timestamps) is the environment's choice det.                *)

Interval(start, end) == [start |-> start, end |-> end]

\* the detector was not run
NoDetector == [kind |-> "none", timestamps |-> << >>]

DetectorRaises == [kind |-> "raise", timestamps |-> << >>]

DetectorFinds(ts) == [kind |-> "timestamps", timestamps |-> ts]

\* what reading the file and running the detector can do on this audio
DetectorOutcomes(audio) ==
    LET n == NumSamples(audio.runs)
    IN  {DetectorRaises}
        \cup (IF audio.readable /\ n > 0
              THEN { DetectorFinds(<< >>),
                     DetectorFinds(<< Interval(0, n) >>),
                     DetectorFinds(<< Interval(0, n \div 4),
                                      Interval(n \div 2, n) >>) }
              ELSE {})

RECURSIVE SpeechSamples(_)
SpeechSamples(ts) ==
    IF ts = << >> THEN 0
    ELSE (Head(ts).end - Head(ts).start) + SpeechSamples(Tail(ts))

\* the keys total_duration_ms, speech_duration_ms, speech_ratio, segments,
\* durations kept in samples and speech_ratio as ratio_num / ratio_den
NeuralMetrics(total, speech, rn, rd, nseg) ==
    [total_samples |-> total, speech_samples |-> speech,
     ratio_num |-> rn, ratio_den |-> rd, segments |-> nseg]

\* the vad_info dict; metrics is None when the dict has only has_speech
\* and error
NeuralInfo(hs, err, metrics) ==
    [strategy |-> "neural", has_speech |-> hs, error |-> err, metrics |-> metrics]

\* a gate that fails closed: an internal error is reported as "no speech"
NeuralOnErrorClosed ==
    [path |-> None, wrote |-> FALSE, chunks |-> << >>, wav |-> None,
     saved |-> None, info |-> NeuralInfo(FALSE, Some("VAD processing error"), None)]

\* the except branch: "If VAD fails, return original file"
NeuralOnError ==
    [path |-> Some("wav"), wrote |-> FALSE, chunks |-> << >>, wav |-> None,
     saved |-> None, info |-> NeuralInfo(TRUE, Some("VAD processing error"), None)]

\* int16 full scale: read_wav_scipy divides the samples by 32768.0
FULL_SCALE == 32768

\* a float product cast or scaled back to int16 drops the fraction
TruncDiv(a, b) == IF a >= 0 THEN a \div b ELSE -((-a) \div b)

\* audio_max > 0 and audio_max < 0.1, on the samples as int16
IsQuiet(audio_max) == audio_max > 0 /\ audio_max * 10 < FULL_SCALE

\* wav * (0.5 / audio_max), on the samples as int16
Boosted(runs, audio_max) ==
    [i \in DOMAIN runs |->
       Run(TruncDiv(runs[i].val * (FULL_SCALE \div 2), audio_max), runs[i].count)]

\* the tensor wav after the normalization step
Normalized(runs) ==
    IF IsQuiet(Peak(runs)) THEN Boosted(runs, Peak(runs)) ELSE runs

Min(a, b) == IF a <= b THEN a ELSE b

\* a slice bound of a tensor of n samples: a negative bound counts from the end
SliceBound(i, n) == IF i < 0 THEN Max(i + n, 0) ELSE Min(i, n)

\* the samples at positions lo .. hi - 1 of the runs
RECURSIVE ClipRuns(_, _, _)
ClipRuns(runs, lo, hi) ==
    IF runs = << >> THEN << >>
    ELSE LET c    == Head(runs).count
             take == Min(c, hi) - Max(0, lo)
             rest == ClipRuns(Tail(runs), lo - c, hi - c)
         IN  IF take > 0 THEN << Run(Head(runs).val, take) >> \o rest ELSE rest

\* collect_chunks(speech_timestamps, wav): wav[start:end] of each timestamp,
\* concatenated
RECURSIVE collect_chunks(_, _)
collect_chunks(tss, runs) ==
    IF tss = << >> THEN << >>
    ELSE LET n == NumSamples(runs)
         IN  ClipRuns(runs, SliceBound(Head(tss).start, n), SliceBound(Head(tss).end, n))
             \o collect_chunks(Tail(tss), runs)

\* the largest int16 sample
INT16_MAX == 32767

\* (audio_np * 32767).astype(np.int16), on samples kept as int16 of full scale
save_wav_scipy(runs) ==
    [i \in DOMAIN runs |->
       Run(TruncDiv(runs[i].val * INT16_MAX, FULL_SCALE), runs[i].count)]

\* returns the path handed back, whether _speech.wav was written, the
\* timestamps given to collect_chunks, the tensor given to the detector, the
\* samples written to _speech.wav, and vad_info
extract_speech_segments(audio, det) ==
    LET total_samples == NumSamples(audio.runs)
        wav           == Normalized(audio.runs)
    IN  IF ~audio.readable THEN NeuralOnError
        ELSE IF total_samples = 0 THEN NeuralOnError   \* max() of an empty tensor
        ELSE IF det.kind = "raise" THEN [NeuralOnError EXCEPT !.wav = Some(wav)]
        ELSE IF det.timestamps = << >>
        THEN [path |-> None, wrote |-> FALSE, chunks |-> << >>, wav |-> Some(wav),
              saved |-> None,
              info |-> NeuralInfo(FALSE, None,
                                  Some(NeuralMetrics(total_samples, 0, 0, 1, 0)))]
        ELSE LET speech_samples == SpeechSamples(det.timestamps)
             IN  [path |-> Some("speech"), wrote |-> TRUE, chunks |-> det.timestamps,
                  wav |-> Some(wav),
                  saved |-> Some(save_wav_scipy(collect_chunks(det.timestamps, wav))),
                  info |-> NeuralInfo(TRUE, None,
                                      Some(NeuralMetrics(total_samples, speech_samples,
                                                         speech_samples, total_samples,
                                                         Len(det.timestamps))))]

----------------------------------------------------------------------------
(* The JSON side-file written by whisper-cli and its conversion to the     *)
(* response (the subprocess variants).                                     *)

Offsets(from, to) == [from |-> from, to |-> to]

JsonSeg(text, offsets) == [text |-> text, offsets |-> offsets]

\* the segment objects the engine's JSON is built from
SegmentShapes ==
    { JsonSeg(Some(<< " ", "a", " " >>), Some(Offsets(Some(0), Some(1200)))),
      JsonSeg(Some(<< "b" >>),           Some(Offsets(Some(1200), Some(3400)))),
      JsonSeg(Some(<< " " >>),           Some(Offsets(Some(3400), Some(5600)))),
      JsonSeg(Some(<< " " >>),           None),
      JsonSeg(None,                      Some(Offsets(Some(0), Some(1200)))),
      JsonSeg(Some(<< "a" >>),           None),
      JsonSeg(Some(<< "a" >>),           Some(Offsets(None, Some(1200)))),
      JsonSeg(Some(<< "a" >>),           Some(Offsets(Some(0), None))) }

SeqsUpTo(S, n) == UNION { [1..k -> S] : k \in 0..n }

\* no side-file was written
NoFileDoc == [kind |-> "nofile", transcription |-> None]

\* the side-file is not valid JSON (for instance cut short)
MalformedDoc == [kind |-> "malformed", transcription |-> None]

ObjectDoc(transcription) == [kind |-> "object", transcription |-> transcription]

JsonDocs ==
    {NoFileDoc, MalformedDoc, ObjectDoc(None)}
    \cup { ObjectDoc(Some(t)) : t \in SeqsUpTo(SegmentShapes, MaxSegs) }

Err(msg, detail) == [msg |-> msg, detail |-> detail]

CppSegment(from, to, text) == [start |-> Float(from), end |-> Float(to), text |-> text]

\* the for loop over whisper_output.get("transcription", [])
RECURSIVE ConvertSegments(_, _)
ConvertSegments(trs, acc) ==
    IF trs = << >> THEN acc
    ELSE
      LET segment  == Head(trs)
          seg_text == Strip(IF IsSome(segment.text) THEN Get(segment.text) ELSE << >>)
      IN  IF seg_text = << >> THEN ConvertSegments(Tail(trs), acc)
          ELSE IF ~IsSome(segment.offsets)
               THEN [acc EXCEPT !.error = Some(Err("KeyError", "'offsets'"))]
          ELSE IF ~IsSome(Get(segment.offsets).from)
               THEN [acc EXCEPT !.error = Some(Err("KeyError", "'from'"))]
          ELSE IF ~IsSome(Get(segment.offsets).to)
               THEN [acc EXCEPT !.error = Some(Err("KeyError", "'to'"))]
          ELSE ConvertSegments(Tail(trs),
                 [acc EXCEPT
                    !.segments = Append(@, CppSegment(Get(Get(segment.offsets).from),
                                                      Get(Get(segment.offsets).to),
                                                      seg_text)),
                    !.full_text = @ \o seg_text \o << " " >>])

\* open + json.load + the conversion loop + the duration
ParseOutput(doc) ==
    LET empty == [error |-> None, segments |-> << >>, full_text |-> << >>,
                  duration |-> Float(0)]
    IN  IF doc.kind = "nofile"
        THEN [empty EXCEPT !.error = Some(Err("FileNotFoundError", "json_output_path"))]
        ELSE IF doc.kind = "malformed"
        THEN [empty EXCEPT !.error = Some(Err("JSONDecodeError", "Expecting value"))]
        ELSE
          LET trs == IF IsSome(doc.transcription) THEN Get(doc.transcription) ELSE << >>
              r   == ConvertSegments(trs, empty)
          IN  IF IsSome(r.error) THEN r
              ELSE [r EXCEPT
                      !.duration = IF r.segments # << >>
                                   THEN r.segments[Len(r.segments)].end
                                   ELSE Float(0),
                      !.full_text = Strip(@)]

----------------------------------------------------------------------------
(* Responses. *)

Pending ==
    [status |-> "pending", error |-> None, duration |-> None,
     full_text |-> None, segments |-> None, vad |-> None]

\* {"status": "error", "error": str(e)}
ErrorResponse(err) == [Pending EXCEPT !.status = "error", !.error = Some(err)]

\* an exception that leaves the handler
Raised(err) == [Pending EXCEPT !.status = "exception", !.error = Some(err)]

SuccessResponse(duration, full_text, segments, vad) ==
    [Pending EXCEPT !.status = "success", !.duration = Some(duration),
                    !.full_text = Some(full_text), !.segments = Some(segments),
                    !.vad = vad]

\* except subprocess.TimeoutExpired
TimeoutError == Err("Transcription timeout after 120 seconds", "")

\* raise Exception(f"Audio conversion failed: {ffmpeg_result.stderr}")
ConversionFailed(stderr) == Err("Audio conversion failed", stderr)

\* raise Exception(f"whisper-cpp failed: {result.stderr}")
EngineFailed(stderr) == Err("whisper-cpp failed", stderr)

\* the early return of the energy variant when has_speech is false
EnergySkipResponse(info) == SuccessResponse(Str("0.00"), << >>, << >>, Some(info))

\* the early return of the neural variant when has_speech is false
NeuralSkipResponse(info) == SuccessResponse(Float(0), << >>, << >>, Some(info))

----------------------------------------------------------------------------
(* The finally block. *)

\* a finally block that forgets the JSON side-file
FinallyPathsNoJson(v, swp) ==
    IF v \in InProcessVariants THEN << "tmp" >>
    ELSE << "tmp", "wav" >>
         \o (IF v = "cpp_silero" /\ IsSome(swp) /\ swp # Some("wav")
             THEN << Get(swp) >> ELSE << >>)

\* the paths the finally block visits, in order
FinallyPaths(v, swp) ==
    IF v \in InProcessVariants THEN << "tmp" >>
    ELSE << "tmp", "wav", "json" >>
         \o (IF v = "cpp_silero" /\ IsSome(swp) /\ swp # Some("wav")
             THEN << Get(swp) >> ELSE << >>)

\* if os.path.exists(path): os.unlink(path), for each path in turn
RECURSIVE UnlinkEach(_, _, _)
UnlinkEach(paths, fs, cnt) ==
    IF paths = << >> THEN [files |-> fs, unlinks |-> cnt]
    ELSE LET p == Head(paths)
         IN  IF p \in fs
             THEN UnlinkEach(Tail(paths), fs \ {p}, [cnt EXCEPT ![p] = @ + 1])
             ELSE UnlinkEach(Tail(paths), fs, cnt)

----------------------------------------------------------------------------
(* The in-process engine (services/whisper-api.py).                        *)

\* the numeric strings float() is applied to, in hundredths
FloatOfString ==
    [s \in {"0.0", "0.5", "0.6", "2.4", "-1.0"} |->
        CASE s = "0.0" -> 0 [] s = "0.5" -> 50 [] s = "0.6" -> 60
          [] s = "2.4" -> 240 [] s = "-1.0" -> -100]

\* float(x) if x else default
ParseFloat(x, default) ==
    IF x = None \/ x = Some("") THEN [ok |-> TRUE, val |-> default]
    ELSE IF Get(x) \in DOMAIN FloatOfString
         THEN [ok |-> TRUE, val |-> FloatOfString[Get(x)]]
         ELSE [ok |-> FALSE, val |-> 0]   \* ValueError

\* str.lower() on the strings used
Lower(x) == IF x \in {"true", "True", "TRUE"} THEN "true" ELSE x

\* x.lower() == "true" if x else False
ParseBool(x) == IF x = None \/ x = Some("") THEN FALSE ELSE Lower(Get(x)) = "true"

DefaultParams ==
    [temperature |-> Some("0.0"), no_speech_threshold |-> Some("0.6"),
     condition_on_previous_text |-> Some("false"),
     compression_ratio_threshold |-> Some("2.4"), logprob_threshold |-> Some("-1.0")]

\* the decoding parameters the requests carry
ParamInputs ==
    { DefaultParams,
      [DefaultParams EXCEPT !.temperature = Some("0.5")],
      [DefaultParams EXCEPT !.temperature = Some("")],
      [DefaultParams EXCEPT !.temperature = Some("abc")],
      [DefaultParams EXCEPT !.condition_on_previous_text = Some("True")],
      [DefaultParams EXCEPT !.condition_on_previous_text = Some("yes")],
      [DefaultParams EXCEPT !.logprob_threshold = Some("low")] }

\* the decoding parameters a request to the variant carries: whisper-api.py
\* parses them, whisper-cpp-api-vad.py declares them, the others have none
ParamInputsOf(v) ==
    CASE v = "faster"  -> ParamInputs
      [] v = "cpp_vad" -> { DefaultParams,
                            [DefaultParams EXCEPT !.temperature = Some("abc")] }
      [] OTHER         -> { DefaultParams }

\* the initial_prompt a request to the variant carries; whisper-api-fixed.py
\* has no such field
PromptInputsOf(v) ==
    IF v = "fixed" THEN {None} ELSE {None, Some(""), Some("custom prompt")}

\* whisper-api-fixed.py 40-44: the decoding parameters are literals
FixedParams ==
    [temperature |-> 0, no_speech_threshold |-> 60,
     condition_on_previous_text |-> FALSE,
     compression_ratio_threshold |-> 240, logprob_threshold |-> -100]

\* lines 34-38: the parsed parameters, or None when float() raises
ParseParams(p) ==
    LET temp  == ParseFloat(p.temperature, 0)
        nst   == ParseFloat(p.no_speech_threshold, 60)
        crt   == ParseFloat(p.compression_ratio_threshold, 240)
        lpt   == ParseFloat(p.logprob_threshold, -100)
    IN  IF temp.ok /\ nst.ok /\ crt.ok /\ lpt.ok
        THEN Some([temperature |-> temp.val, no_speech_threshold |-> nst.val,
                   condition_on_previous_text |-> ParseBool(p.condition_on_previous_text),
                   compression_ratio_threshold |-> crt.val,
                   logprob_threshold |-> lpt.val])
        ELSE None

ModelSeg(start, end, text, nsp) ==
    [start |-> Float(start), end |-> Float(end), text |-> text, no_speech_prob |-> nsp]

\* the segments the in-process model yields (no_speech_prob in hundredths)
ModelSegShapes ==
    { ModelSeg(0, 1200, << " ", "a" >>, Some(10)),
      ModelSeg(1200, 3400, << "b" >>, Some(NO_SPEECH_DROP)),
      ModelSeg(3400, 5600, << "c", " " >>, Some(90)),
      ModelSeg(500, 1000, << "d" >>, None),
      ModelSeg(5600, 5600, << " " >>, Some(20)) }

ModelRaises == [kind |-> "raise", segments |-> << >>, duration |-> Float(0)]

ModelYields(segs, dur) == [kind |-> "segments", segments |-> segs, duration |-> Float(dur)]

ModelOutcomes ==
    {ModelRaises}
    \cup { ModelYields(segs, 5600) : segs \in SeqsUpTo(ModelSegShapes, MaxSegs) }

\* a filter whose threshold is too high
DroppedHigh(seg) ==
    IsSome(seg.no_speech_prob) /\ Get(seg.no_speech_prob) > NO_SPEECH_DROP + 20

\* a filter that drops a segment at the threshold as well
DroppedAtThreshold(seg) ==
    IsSome(seg.no_speech_prob) /\ Get(seg.no_speech_prob) >= NO_SPEECH_DROP

\* hasattr(seg, 'no_speech_prob') and seg.no_speech_prob > 0.7
Dropped(seg) == IsSome(seg.no_speech_prob) /\ Get(seg.no_speech_prob) > NO_SPEECH_DROP

\* the for loop over the model's segments
RECURSIVE FilterSegments(_, _)
FilterSegments(segs, acc) ==
    IF segs = << >> THEN acc
    ELSE LET seg == Head(segs)
         IN  IF Dropped(seg) THEN FilterSegments(Tail(segs), acc)
             ELSE FilterSegments(Tail(segs),
                    [acc EXCEPT !.segments = Append(@, [seg EXCEPT !.text = Strip(@)]),
                                !.full_text = @ \o Strip(seg.text) \o << " " >>])

InProcessResponse(out) ==
    LET r == FilterSegments(out.segments, [segments |-> << >>, full_text |-> << >>])
    IN  SuccessResponse(out.duration, Strip(r.full_text), r.segments, None)

\* f"{x:.3f}": a str holding x rounded to the millisecond
Format3(x) == [type |-> "str", ms |-> x.ms, repr |-> "%.3f"]

\* f"{x:.2f}": a str holding x rounded to the hundredth of a second
Format2(x) ==
    LET rounded == ((x.ms + 5) \div 10) * 10
    IN  IF rounded = 0 THEN Str("0.00")
        ELSE [type |-> "str", ms |-> rounded, repr |-> "%.2f"]

\* result["text"]: the texts of the model's segments, one after the other
RECURSIVE ResultText(_)
ResultText(segs) ==
    IF segs = << >> THEN << >> ELSE Head(segs).text \o ResultText(Tail(segs))

\* whisper-api-fixed.py 47-67: the segments as strings, no filtering
FixedResponse(out) ==
    LET segs == out.segments
    IN  SuccessResponse(IF segs # << >> THEN Format2(segs[Len(segs)].end)
                                         ELSE Str("0.00"),
                        Strip(ResultText(segs)),
                        [i \in DOMAIN segs |->
                           [start |-> Format3(segs[i].start),
                            end |-> Format3(segs[i].end),
                            text |-> Strip(segs[i].text)]],
                        None)

----------------------------------------------------------------------------
(* The engine's command line (the subprocess variants).                    *)

DomainPrompt(v) == IF v = "cpp_vad" THEN "short medical vocabulary"
                                    ELSE "medical vocabulary"

\* if initial_prompt: ... elif language == "ja": ...
CppPrompt(v, ip, lang) ==
    IF IsSome(ip) /\ Get(ip) # "" THEN ip
    ELSE IF lang = "ja" THEN Some(DomainPrompt(v))
    ELSE None

\* the initial_prompt= of model.transcribe
InProcessPrompt(v, ip, lang) ==
    IF v = "faster" THEN ip
    ELSE IF lang = "ja" THEN Some(DomainPrompt(v))
    ELSE None

\* the timeout= of each blocking call, when it has one
ConverterTimeoutOf(v) == IF v \in CppVariants THEN Some(CONVERTER_TIMEOUT_S) ELSE None

EngineTimeoutOf(v) == IF v \in CppVariants THEN Some(ENGINE_TIMEOUT_S) ELSE None

----------------------------------------------------------------------------
(* Temporary paths.  A path is the sequence of its parts: the random name  *)
(* mkstemp chose, then the suffixes appended to it.                        *)

\* the requests that are in flight together
Requests == {"r1", "r2"}

\* the random names mkstemp can choose
Stems == {"s1", "s2"}

\* os.path.splitext(file.filename)[1]: none, ".wav", ".json", ".m4a"
Exts == { << >>, << ".wav" >>, << ".json" >>, << ".m4a" >> }

\* tmp.name of NamedTemporaryFile(delete=False, suffix=ext)
TmpPath(stem, ext) == << stem >> \o ext

\* wav_path = tmp_path + ".wav"
WavPath(tmp_path) == tmp_path \o << ".wav" >>

\* json_output_path = tmp_path + ".json"
JsonPath(tmp_path) == tmp_path \o << ".json" >>

\* a speech-only path that is the canonical path itself
SpeechPathInPlace(wav_path) == wav_path

\* output_path = wav_path.replace('.wav', '_speech.wav'): every occurrence
SpeechPath(wav_path) ==
    [i \in DOMAIN wav_path |->
       IF wav_path[i] = ".wav" THEN "_speech.wav" ELSE wav_path[i]]

\* the paths a request with this upload path uses
PathsOfRequest(tmp_path) ==
    { tmp_path, WavPath(tmp_path), JsonPath(tmp_path),
      SpeechPath(WavPath(tmp_path)) }

File(owner, kind) == [owner |-> owner, kind |-> kind]

\* the file at path is created or overwritten
Put(d, path, f) == [p \in DOMAIN d \cup {path} |-> IF p = path THEN f ELSE d[p]]

\* if os.path.exists(path): os.unlink(path), for each of the paths
Remove(d, paths) == [p \in DOMAIN d \ paths |-> d[p]]

\* no file in the temp directory
NoFiles == << >>

\* a request that has not been accepted yet
Arrived(ext) ==
    [pc |-> "arrived", ext |-> ext, tmp_path |-> None, status |-> "pending"]

\* no concurrent requests are modelled
NoRequests == [r \in Requests |-> Arrived(<< >>)]

----------------------------------------------------------------------------
(* The request. *)

NoAudio == Audio(FALSE, << >>, 0)

NoResult == [status |-> "none", stderr |-> ""]

Init ==
    /\ variant \in Variants
    /\ language \in {"ja", "en"}
    /\ initial_prompt \in PromptInputsOf(variant)
    /\ params \in ParamInputsOf(variant)
    /\ pc = "received"
    /\ files = {}
    /\ wavAudio = NoAudio
    /\ jsonDoc = NoFileDoc
    /\ modelOut = ModelRaises
    /\ speech_wav_path = None
    /\ vad_info = None
    /\ detector = NoDetector
    /\ spliced = << >>
    /\ vadInput = None
    /\ speechAudio = None
    /\ decode = None
    /\ convCalls = 0
    /\ vadCalls = 0
    /\ engineCalls = 0
    /\ engineInput = None
    /\ enginePrompt = None
    /\ uploadResult = "none"
    /\ convResult = NoResult
    /\ engineResult = NoResult
    /\ unlinks = [p \in Paths |-> 0]
    /\ response = Pending
    /\ loopOwner = None
    /\ reqs = NoRequests
    /\ disk = NoFiles

inputs == << variant, language, initial_prompt, params >>

\* return resp: the finally block runs on the files fs, then the handler ends
Return(resp, fs, swp) ==
    LET c == UnlinkEach(FinallyPaths(variant, swp), fs, unlinks)
    IN  /\ response' = resp
        /\ files' = c.files
        /\ unlinks' = c.unlinks
        /\ pc' = "returned"

\* the with block that saves the upload; it stands before the try
SaveUpload ==
    /\ pc = "received"
    /\ \E outcome \in {"ok", "read_fails", "write_fails"} :
         /\ uploadResult' = outcome
         /\ files' = files \cup {"tmp"}      \* NamedTemporaryFile(delete=False)
         /\ IF outcome = "ok"
            THEN pc' = "saved" /\ response' = response
            ELSE pc' = "raised" /\ response' = Raised(Err("OSError", outcome))
    /\ UNCHANGED << inputs, concurrent, spliced, vadInput, speechAudio, wavAudio, jsonDoc, modelOut,
                    speech_wav_path, vad_info, detector, decode, convCalls,
                    vadCalls, engineCalls, engineInput, enginePrompt,
                    convResult, engineResult, unlinks >>

\* subprocess.run(ffmpeg_cmd, ..., timeout=30) is entered
StartConverter ==
    /\ pc = "saved"
    /\ variant \in CppVariants
    /\ convCalls' = convCalls + 1
    /\ \E fate \in {"converting", "converter_hung"} : pc' = fate
    /\ UNCHANGED << inputs, concurrent, spliced, vadInput, speechAudio, files, wavAudio, jsonDoc, modelOut,
                    speech_wav_path, vad_info, detector, decode, vadCalls,
                    engineCalls, engineInput, enginePrompt, uploadResult,
                    convResult, engineResult, unlinks, response >>

ConverterOutcomes ==
    { [rc |-> 0, audio |-> a, wrote |-> TRUE, stderr |-> ""] : a \in PipelineAudio }
    \cup { [rc |-> 1, audio |-> NoAudio, wrote |-> w,
            stderr |-> "Invalid data found when processing input"] : w \in BOOLEAN }

\* the converter process exits
ConverterExits ==
    /\ pc = "converting"
    /\ \E out \in ConverterOutcomes :
         /\ convResult' = [status |-> IF out.rc = 0 THEN "ok" ELSE "nonzero",
                           stderr |-> out.stderr]
         /\ files' = files \cup (IF out.wrote THEN {"wav"} ELSE {})
         /\ wavAudio' = out.audio
    /\ pc' = "converted"
    /\ UNCHANGED << inputs, concurrent, spliced, vadInput, speechAudio, jsonDoc, modelOut, speech_wav_path,
                    vad_info, detector, decode, convCalls, vadCalls,
                    engineCalls, engineInput, enginePrompt, uploadResult,
                    engineResult, unlinks, response >>

\* the converter runs into its timeout: subprocess.run kills it and raises
\* TimeoutExpired, which the handler's except clause turns into a response
ConverterTimeout ==
    /\ pc \in {"converting", "converter_hung"}
    /\ IsSome(ConverterTimeoutOf(variant))
    /\ convResult' = [status |-> "timeout", stderr |-> "ffmpeg output so far"]
    /\ \E wrote \in BOOLEAN :
         Return(ErrorResponse(TimeoutError),
                files \cup (IF wrote THEN {"wav"} ELSE {}), speech_wav_path)
    /\ UNCHANGED << inputs, concurrent, spliced, vadInput, speechAudio, wavAudio, jsonDoc, modelOut,
                    speech_wav_path, vad_info, detector, decode, convCalls,
                    vadCalls, engineCalls, engineInput, enginePrompt,
                    uploadResult, engineResult >>

\* the handler builds cmd and enters subprocess.run(cmd, ..., timeout=120)
StartEngine(input, fs) ==
    /\ engineCalls' = engineCalls + 1
    /\ engineInput' = Some(input)
    /\ enginePrompt' = CppPrompt(variant, initial_prompt, language)
    /\ files' = fs
    /\ \E fate \in {"engine_running", "engine_hung"} : pc' = fate
    /\ UNCHANGED << unlinks, response >>

\* the VAD decision of the variant on the canonical audio: the path and
\* decision of the gate, and whether a speech-only file was written
VadStage(v, audio, det) ==
    CASE v = "cpp_vad" ->
           [ran |-> TRUE, path |-> None, wrote |-> FALSE, chunks |-> << >>,
            input |-> None, saved |-> None, info |-> Some(calculate_audio_energy(audio))]
      [] v = "cpp_silero" ->
           LET r == extract_speech_segments(audio, det)
           IN  [ran |-> TRUE, path |-> r.path, wrote |-> r.wrote, chunks |-> r.chunks,
                input |-> r.wav, saved |-> r.saved, info |-> Some(r.info)]
      [] OTHER ->
           [ran |-> FALSE, path |-> None, wrote |-> FALSE, chunks |-> << >>,
            input |-> None, saved |-> None, info |-> None]

\* the early return when the gate found no speech
SkipResponse(v, info) ==
    IF v = "cpp_vad" THEN EnergySkipResponse(info) ELSE NeuralSkipResponse(info)

\* subprocess.run(ffmpeg_cmd) has returned: check the return code, run the
\* VAD gate of the variant, return early or start the engine
ConverterReturned ==
    /\ pc = "converted"
    /\ IF convResult.status # "ok"
       THEN /\ Return(ErrorResponse(ConversionFailed(convResult.stderr)),
                      files, speech_wav_path)
            /\ UNCHANGED << speech_wav_path, vad_info, detector, spliced, vadInput, speechAudio,
                            vadCalls, engineCalls, engineInput, enginePrompt >>
       ELSE \E det \in (IF variant = "cpp_silero" THEN DetectorOutcomes(wavAudio)
                                                  ELSE {NoDetector}) :
              LET vad == VadStage(variant, wavAudio, det)
                  fs  == files \cup (IF vad.wrote THEN {"speech"} ELSE {})
              IN  /\ vadCalls' = vadCalls + (IF vad.ran THEN 1 ELSE 0)
                  /\ vad_info' = vad.info
                  /\ detector' = det
                  /\ spliced' = vad.chunks
                  /\ vadInput' = vad.input
                  /\ speechAudio' = vad.saved
                  /\ speech_wav_path' = vad.path
                  /\ IF vad.ran /\ ~Get(vad.info).has_speech
                     THEN /\ Return(SkipResponse(variant, Get(vad.info)), fs, vad.path)
                          /\ UNCHANGED << engineCalls, engineInput,
                                          enginePrompt >>
                     ELSE StartEngine(IF variant = "cpp_silero" THEN Get(vad.path)
                                                                ELSE "wav", fs)
    /\ UNCHANGED << inputs, concurrent, wavAudio, jsonDoc, modelOut, decode, convCalls,
                    uploadResult, convResult, engineResult >>

EngineOutcomes ==
    { [rc |-> 0, doc |-> d, stderr |-> ""] : d \in JsonDocs }
    \cup { [rc |-> 1, doc |-> d, stderr |-> "failed to read audio"]
           : d \in {NoFileDoc, MalformedDoc} }

\* the engine process exits, having written (or not) its JSON side-file
EngineExits ==
    /\ pc = "engine_running"
    /\ variant \in CppVariants
    /\ \E out \in EngineOutcomes :
         /\ engineResult' = [status |-> IF out.rc = 0 THEN "ok" ELSE "nonzero",
                             stderr |-> out.stderr]
         /\ jsonDoc' = out.doc
         /\ files' = files \cup (IF out.doc.kind # "nofile" THEN {"json"} ELSE {})
    /\ pc' = "engine_exited"
    /\ UNCHANGED << inputs, concurrent, spliced, vadInput, speechAudio, wavAudio, modelOut, speech_wav_path,
                    vad_info, detector, decode, convCalls, vadCalls,
                    engineCalls, engineInput, enginePrompt, uploadResult,
                    convResult, unlinks, response >>

\* a handler that runs the engine again after a timeout
OnEngineTimeoutRetry(fs) ==
    /\ engineCalls' = engineCalls + 1
    /\ pc' = "engine_running"
    /\ files' = fs
    /\ UNCHANGED << unlinks, response >>

\* except subprocess.TimeoutExpired, reached from the engine's subprocess.run
OnEngineTimeout(fs) ==
    /\ Return(ErrorResponse(TimeoutError), fs, speech_wav_path)
    /\ UNCHANGED << engineCalls >>

\* the engine runs into its timeout: subprocess.run kills it and raises
\* TimeoutExpired; the side-file may be there, cut short
EngineTimeout ==
    /\ pc \in {"engine_running", "engine_hung"}
    /\ IsSome(EngineTimeoutOf(variant))
    /\ engineResult' = [status |-> "timeout", stderr |-> ""]
    /\ \E doc \in {NoFileDoc, MalformedDoc} :
         /\ jsonDoc' = doc
         /\ OnEngineTimeout(files \cup (IF doc.kind # "nofile" THEN {"json"} ELSE {}))
    /\ UNCHANGED << inputs, concurrent, spliced, vadInput, speechAudio, wavAudio, modelOut, speech_wav_path,
                    vad_info, detector, decode, convCalls, vadCalls,
                    engineInput, enginePrompt, uploadResult, convResult >>

\* the response built from the engine's exit status and its side-file
CppResponse(result, doc, vad) ==
    IF result.status # "ok" THEN ErrorResponse(EngineFailed(result.stderr))
    ELSE LET r == ParseOutput(doc)
         IN  IF IsSome(r.error) THEN ErrorResponse(Get(r.error))
             ELSE SuccessResponse(r.duration, r.full_text, r.segments, vad)

\* subprocess.run(cmd) has returned: check the return code, read the JSON
EngineReturned ==
    /\ pc = "engine_exited"
    /\ Return(CppResponse(engineResult, jsonDoc, vad_info), files, speech_wav_path)
    /\ UNCHANGED << inputs, concurrent, spliced, vadInput, speechAudio, wavAudio, jsonDoc, modelOut,
                    speech_wav_path, vad_info, detector, decode, convCalls,
                    vadCalls, engineCalls, engineInput, enginePrompt,
                    uploadResult, convResult, engineResult >>

\* whisper-api.py, whisper-api-fixed.py: parse the parameters (whisper-api.py
\* only) and call model.transcribe
StartInference ==
    /\ pc = "saved"
    /\ variant \in InProcessVariants
    /\ LET parsed == IF variant = "faster" THEN ParseParams(params)
                                           ELSE Some(FixedParams)
       IN  /\ decode' = parsed
           /\ IF parsed = None
              THEN /\ Return(ErrorResponse(Err("ValueError",
                                               "could not convert string to float")),
                             files, speech_wav_path)
                   /\ UNCHANGED << engineCalls, engineInput, enginePrompt >>
              ELSE /\ engineCalls' = engineCalls + 1
                   /\ engineInput' = Some("tmp")
                   /\ enginePrompt' = InProcessPrompt(variant, initial_prompt, language)
                   /\ \E fate \in {"inferring", "inference_hung"} : pc' = fate
                   /\ UNCHANGED << files, unlinks, response >>
    /\ UNCHANGED << inputs, concurrent, spliced, vadInput, speechAudio, wavAudio, jsonDoc, modelOut,
                    speech_wav_path, vad_info, detector, convCalls, vadCalls,
                    uploadResult, convResult, engineResult >>

\* the model call returns (or raises) and the segments are filtered
InferenceReturns ==
    /\ pc = "inferring"
    /\ \E out \in ModelOutcomes :
         /\ modelOut' = out
         /\ engineResult' = [status |-> IF out.kind = "raise" THEN "raise" ELSE "ok",
                             stderr |-> ""]
         /\ Return(IF out.kind = "raise"
                   THEN ErrorResponse(Err("RuntimeError", "model failure"))
                   ELSE IF variant = "faster" THEN InProcessResponse(out)
                   ELSE FixedResponse(out),
                   files, speech_wav_path)
    /\ UNCHANGED << inputs, concurrent, spliced, vadInput, speechAudio, wavAudio, jsonDoc, speech_wav_path,
                    vad_info, detector, decode, convCalls, vadCalls,
                    engineCalls, engineInput, enginePrompt, uploadResult,
                    convResult >>

Next ==
    \/ SaveUpload
    \/ StartConverter
    \/ ConverterExits
    \/ ConverterTimeout
    \/ ConverterReturned
    \/ EngineExits
    \/ EngineTimeout
    \/ EngineReturned
    \/ StartInference
    \/ InferenceReturns

Spec == Init /\ [][Next]_vars

\* the event loop runs a handler that can take a step, and a timeout that is
\* armed on a running process fires
FairSpec == Spec /\ WF_vars(Next)

Terminal == pc \in {"returned", "raised"}

----------------------------------------------------------------------------
(* The energy gate on its own: calculate_audio_energy applied to bounded   *)
(* payloads of 16-bit samples.                                             *)

\* longest payload, in runs of equal samples
MaxRuns == 2

\* sample values on both sides of the amplitude threshold
EnergyRunVals == {0, 200, 201, -300, 2500}

\* run lengths on both sides of the 1% ratio
EnergyRunCounts == {1, 99, 100}

EnergyRuns == { Run(v, c) : v \in EnergyRunVals, c \in EnergyRunCounts }

\* the payloads the energy gate is run on: every non-empty readable payload
\* of whole samples up to MaxRuns runs
EnergyAudio ==
    { Audio(TRUE, rs, 0) : rs \in SeqsUpTo(EnergyRuns, MaxRuns) \ {<< >>} }

InitEnergy ==
    /\ variant = "cpp_vad"
    /\ language = "ja"
    /\ initial_prompt = None
    /\ params = DefaultParams
    /\ pc = "energy_input"
    /\ files = {"wav"}
    /\ wavAudio \in EnergyAudio
    /\ jsonDoc = NoFileDoc
    /\ modelOut = ModelRaises
    /\ speech_wav_path = None
    /\ vad_info = None
    /\ detector = NoDetector
    /\ spliced = << >>
    /\ vadInput = None
    /\ speechAudio = None
    /\ decode = None
    /\ convCalls = 0
    /\ vadCalls = 0
    /\ engineCalls = 0
    /\ engineInput = None
    /\ enginePrompt = None
    /\ uploadResult = "none"
    /\ convResult = NoResult
    /\ engineResult = NoResult
    /\ unlinks = [p \in Paths |-> 0]
    /\ response = Pending
    /\ loopOwner = None
    /\ reqs = NoRequests
    /\ disk = NoFiles

\* energy_info = calculate_audio_energy(wav_path)
ApplyEnergy ==
    /\ pc = "energy_input"
    /\ vad_info' = Some(calculate_audio_energy(wavAudio))
    /\ vadCalls' = vadCalls + 1
    /\ pc' = "energy_done"
    /\ UNCHANGED << inputs, concurrent, spliced, vadInput, speechAudio, files, wavAudio, jsonDoc, modelOut,
                    speech_wav_path, detector, decode, convCalls, engineCalls,
                    engineInput, enginePrompt, uploadResult, convResult,
                    engineResult, unlinks, response >>

SpecEnergy == InitEnergy /\ [][ApplyEnergy]_vars

----------------------------------------------------------------------------
(* The neural gate on its own: extract_speech_segments applied to whatever *)
(* list of timestamps the detector hands back.                             *)

\* longest list of timestamps the detector returns
MaxIntervals == 2

\* the payloads the neural gate is run on: 320 samples, none, unreadable
NeuralAudio ==
    { Audio(TRUE, << Run(400, 320) >>, 0),
      Audio(TRUE, << Run(8000, 320) >>, 0),
      Audio(TRUE, << Run(0, 320) >>, 0),
      Audio(TRUE, << >>, 0),
      Audio(FALSE, << >>, 0) }

\* sample positions before, inside and after a payload of 320 samples
IntervalPoints == {-80, 0, 160, 320, 400}

AnyIntervals == { Interval(s, e) : s \in IntervalPoints, e \in IntervalPoints }

\* the detector raises, or returns any list of start/end pairs
AnyDetectorOutcomes ==
    {DetectorRaises}
    \cup { DetectorFinds(ts) : ts \in SeqsUpTo(AnyIntervals, MaxIntervals) }

\* the request whose canonical audio is gated
NeuralRequest == "r1"

InitNeural ==
    /\ variant = "cpp_silero"
    /\ language = "ja"
    /\ initial_prompt = None
    /\ params = DefaultParams
    /\ pc = "neural_input"
    /\ files = {"wav"}
    /\ wavAudio \in NeuralAudio
    /\ jsonDoc = NoFileDoc
    /\ modelOut = ModelRaises
    /\ speech_wav_path = None
    /\ vad_info = None
    /\ detector \in AnyDetectorOutcomes
    /\ spliced = << >>
    /\ vadInput = None
    /\ speechAudio = None
    /\ decode = None
    /\ convCalls = 0
    /\ vadCalls = 0
    /\ engineCalls = 0
    /\ engineInput = None
    /\ enginePrompt = None
    /\ uploadResult = "none"
    /\ convResult = NoResult
    /\ engineResult = NoResult
    /\ unlinks = [p \in Paths |-> 0]
    /\ response = Pending
    /\ loopOwner = Some(NeuralRequest)
    /\ \E ext \in Exts :
          LET tmp_path == TmpPath("s1", ext)
          IN  /\ reqs = [NoRequests EXCEPT ![NeuralRequest] =
                            [pc |-> "converting", ext |-> ext,
                             tmp_path |-> Some(tmp_path), status |-> "pending"]]
              /\ disk = Put(Put(NoFiles, tmp_path, File(NeuralRequest, "upload")),
                            WavPath(tmp_path), File(NeuralRequest, "wav"))

\* speech_wav_path, vad_info = extract_speech_segments(wav_path)
ApplyNeural ==
    /\ pc = "neural_input"
    /\ LET r           == extract_speech_segments(wavAudio, detector)
           wav_path    == WavPath(Get(reqs[NeuralRequest].tmp_path))
           output_path == SpeechPath(wav_path)
       IN  /\ vad_info' = Some(r.info)
           /\ speech_wav_path' = r.path
           /\ spliced' = r.chunks
           /\ vadInput' = r.wav
           /\ speechAudio' = r.saved
           /\ files' = files \cup (IF r.wrote THEN {"speech"} ELSE {})
           /\ disk' = IF r.wrote
                      THEN Put(disk, output_path, File(NeuralRequest, "speech"))
                      ELSE disk
           /\ wavAudio' = IF r.wrote /\ output_path = wav_path
                          THEN Audio(TRUE, Get(r.saved), 0)
                          ELSE wavAudio
    /\ vadCalls' = vadCalls + 1
    /\ pc' = "neural_done"
    /\ UNCHANGED << inputs, loopOwner, reqs, jsonDoc, modelOut, detector, decode,
                    convCalls, engineCalls, engineInput, enginePrompt,
                    uploadResult, convResult, engineResult, unlinks, response >>

SpecNeural == InitNeural /\ [][ApplyNeural]_vars

----------------------------------------------------------------------------
(* Concurrent requests: the handlers are coroutines (async def transcribe) *)
(* of one event loop (uvicorn.run(app)).  A handler runs on the loop's     *)
(* thread from one await to the next; its only await is file.read().       *)
(* subprocess.run does not await: the handler keeps the thread until the   *)
(* process has ended.                                                      *)

\* the single request stays as constructed
IdlePipeline ==
    /\ variant = "cpp_silero"
    /\ language = "ja"
    /\ initial_prompt = None
    /\ params = DefaultParams
    /\ pc = "received"
    /\ files = {}
    /\ wavAudio = NoAudio
    /\ jsonDoc = NoFileDoc
    /\ modelOut = ModelRaises
    /\ speech_wav_path = None
    /\ vad_info = None
    /\ detector = NoDetector
    /\ spliced = << >>
    /\ vadInput = None
    /\ speechAudio = None
    /\ decode = None
    /\ convCalls = 0
    /\ vadCalls = 0
    /\ engineCalls = 0
    /\ engineInput = None
    /\ enginePrompt = None
    /\ uploadResult = "none"
    /\ convResult = NoResult
    /\ engineResult = NoResult
    /\ unlinks = [p \in Paths |-> 0]
    /\ response = Pending

InitLoop ==
    /\ IdlePipeline
    /\ loopOwner = None
    /\ reqs \in [Requests -> { Arrived(e) : e \in Exts }]
    /\ disk = NoFiles

\* no handler is running on the loop's thread
LoopFree == loopOwner = None

\* the handler starts: NamedTemporaryFile creates the upload file under a
\* name that does not exist, then the handler awaits file.read()
AcceptRequest(r) ==
    /\ reqs[r].pc = "arrived"
    /\ LoopFree
    /\ \E stem \in Stems :
         LET path == TmpPath(stem, reqs[r].ext)
         IN  /\ path \notin DOMAIN disk
             /\ disk' = Put(disk, path, File(r, "upload"))
             /\ reqs' = [reqs EXCEPT ![r].pc = "reading",
                                     ![r].tmp_path = Some(path)]
    /\ UNCHANGED << pipeline, loopOwner >>

\* file.read() is done: the handler is resumed, writes the upload and
\* enters subprocess.run(ffmpeg_cmd), which keeps the loop's thread
ResumeAfterRead(r) ==
    /\ reqs[r].pc = "reading"
    /\ LoopFree
    /\ loopOwner' = Some(r)
    /\ reqs' = [reqs EXCEPT ![r].pc = "converting"]
    /\ UNCHANGED << pipeline, disk >>

\* the handler returns: the finally block unlinks its paths where they
\* exist, and the loop's thread is free again
Finish(r, status, d, speech_wav_path_set) ==
    LET tmp == Get(reqs[r].tmp_path)
    IN  /\ reqs' = [reqs EXCEPT ![r].pc = "returned", ![r].status = status]
        /\ disk' = Remove(d, {tmp, WavPath(tmp), JsonPath(tmp)}
                             \cup (IF speech_wav_path_set
                                   THEN {SpeechPath(WavPath(tmp))} ELSE {}))
        /\ loopOwner' = None

\* the converter ends; the handler goes on to the VAD gate and either
\* returns or enters subprocess.run(cmd) for the engine
LoopConverterExits(r) ==
    /\ reqs[r].pc = "converting"
    /\ LET tmp == Get(reqs[r].tmp_path)
           wav == WavPath(tmp)
       IN  \E outcome \in (IF tmp \in DOMAIN disk
                           THEN {"fails", "no_speech", "speech"} ELSE {"fails"}) :
             CASE outcome = "fails" -> Finish(r, "error", disk, FALSE)
               [] outcome = "no_speech" ->
                    Finish(r, "success", Put(disk, wav, File(r, "wav")), FALSE)
               [] OTHER ->
                    /\ disk' = Put(Put(disk, wav, File(r, "wav")),
                                   SpeechPath(wav), File(r, "speech"))
                    /\ reqs' = [reqs EXCEPT ![r].pc = "transcribing"]
                    /\ UNCHANGED loopOwner
    /\ UNCHANGED pipeline

\* the engine ends (or is killed at its timeout); the handler reads the
\* side-file and returns
LoopEngineExits(r) ==
    /\ reqs[r].pc = "transcribing"
    /\ \E outcome \in {"ok", "fails"} :
         LET json == JsonPath(Get(reqs[r].tmp_path))
         IN  IF outcome = "ok"
             THEN Finish(r, "success", Put(disk, json, File(r, "json")), TRUE)
             ELSE Finish(r, "error", disk, TRUE)
    /\ UNCHANGED pipeline

LoopNext ==
    \/ \E r \in Requests : AcceptRequest(r)
    \/ \E r \in Requests : ResumeAfterRead(r)
    \/ \E r \in Requests : LoopConverterExits(r)
    \/ \E r \in Requests : LoopEngineExits(r)

SpecLoop == InitLoop /\ [][LoopNext]_vars

----------------------------------------------------------------------------
(* Properties. *)

\* a failure that the pipeline is to turn into an error record
FailureOccurred ==
    \/ uploadResult \in {"read_fails", "write_fails"}
    \/ convResult.status \in {"nonzero", "timeout"}
    \/ engineResult.status \in {"nonzero", "timeout", "raise"}

VadSaidNoSpeech == IsSome(vad_info) /\ ~Get(vad_info).has_speech

\* the request got past normalization and the VAD gate
ReachedTranscribing ==
    /\ variant \in CppVariants
    /\ convResult.status = "ok"
    /\ variant # "cpp_original" => IsSome(vad_info) /\ Get(vad_info).has_speech

\* C1: once the request has ended, on whatever path, none of its temporary
\* files (upload, canonical WAV, JSON side-file, speech-only WAV) exists.
C1_TempFilesDeleted == Terminal => files = {}

\* C2: when the VAD gate (energy or neural) says has_speech = false, the
\* engine is not invoked and the response is success with full_text "",
\* segments [] and duration the number 0.0.
C2_NoSpeechShortCircuit ==
    VadSaidNoSpeech =>
        /\ engineCalls = 0
        /\ pc = "returned"
        /\ response.status = "success"
        /\ response.full_text = Some(<< >>)
        /\ response.segments = Some(<< >>)
        /\ response.duration = Some(Float(0))

\* C3: the engine is never invoked more than once in a request, also not
\* after a timeout, a non-zero exit or a parse failure, and a request that
\* got past normalization and the VAD gate invokes it exactly once.
C3_EngineInvokedOnce ==
    /\ engineCalls <= 1
    /\ pc \in {"engine_running", "engine_hung", "engine_exited"} => engineCalls = 1
    /\ Terminal /\ ReachedTranscribing => engineCalls = 1

C3_Witness ==
    /\ pc = "returned"
    /\ ReachedTranscribing
    /\ engineResult.status = "timeout"
    /\ engineCalls = 1

\* C4: every failure in a request is returned as {status: "error", error};
\* no exception leaves the transcribe operation.
C4_FailuresBecomeErrorRecords ==
    Terminal =>
        /\ pc = "returned"
        /\ response.status \in {"success", "error"}
        /\ FailureOccurred => response.status = "error" /\ IsSome(response.error)

C6_ConversionErrorReported ==
    Terminal /\ convResult.status \in {"nonzero", "timeout"} =>
        /\ response.status = "error"
        /\ response.error = Some(ConversionFailed(convResult.stderr))
        /\ response.error # Some(TimeoutError)
        /\ vadCalls = 0
        /\ engineCalls = 0

\* the side-file is malformed or lacks the transcription list, a segment's
\* offsets, offsets.from or offsets.to
DocLacksExpectedKey(doc) ==
    \/ doc.kind = "malformed"
    \/ /\ doc.kind = "object"
       /\ \/ doc.transcription = None
          \/ \E i \in DOMAIN Get(doc.transcription) :
               LET seg == Get(doc.transcription)[i]
               IN  \/ seg.offsets = None
                   \/ Get(seg.offsets).from = None
                   \/ Get(seg.offsets).to = None

\* C7: an engine side-file that is malformed or lacks an expected key ends
\* the request in an error result, never in a success result.
C7_BadSideFileIsError ==
    /\ pc = "returned"
    /\ variant \in CppVariants
    /\ engineResult.status = "ok"
    /\ DocLacksExpectedKey(jsonDoc)
    => response.status = "error"

\* C8: every blocking call is bounded by a timeout, so every request
\* eventually returns a response, even if the converter or the engine never
\* finishes.
C8_EveryRequestReturns == <>Terminal

NeuralDetectorRaised ==
    /\ variant = "cpp_silero"
    /\ vadCalls = 1
    /\ (~wavAudio.readable \/ detector.kind = "raise")

\* C9: when the neural detector raises, the gate hands back the canonical
\* path with has_speech = true and error set, the request goes on, the
\* engine is invoked on the canonical audio, and the canonical file is
\* unlinked exactly once, at the end.
C9_NeuralFailOpen ==
    NeuralDetectorRaised =>
        /\ Get(vad_info).has_speech
        /\ IsSome(Get(vad_info).error)
        /\ speech_wav_path = Some("wav")
        /\ engineCalls = 1
        /\ engineInput = Some("wav")
        /\ engineResult.status = "none" => pc \in {"engine_running", "engine_hung"}
        /\ pc # "returned" => "wav" \in files /\ unlinks["wav"] = 0
        /\ pc = "returned" => "wav" \notin files /\ unlinks["wav"] = 1

C9_Witness ==
    /\ NeuralDetectorRaised
    /\ pc = "returned"
    /\ response.status = "success"
    /\ Get(response.segments) # << >>
    /\ unlinks["wav"] = 1

\* the file cannot be read, or its payload has an odd number of bytes
EnergyReadOrParseError(audio) ==
    \/ ~audio.readable
    \/ audio.trailing # 0

\* C10: when the energy gate hits a read or parse error (the file cannot be
\* read, the payload has an odd number of bytes), it returns has_speech =
\* true with an error field set, and the request goes on to transcription.
C10_EnergyFailOpen ==
    variant = "cpp_vad" /\ vadCalls = 1 /\ EnergyReadOrParseError(wavAudio) =>
        /\ Get(vad_info).has_speech
        /\ IsSome(Get(vad_info).error)
        /\ engineCalls = 1

\* the payload sample by sample
RECURSIVE SamplesOf(_)
SamplesOf(runs) ==
    IF runs = << >> THEN << >>
    ELSE [i \in 1..Head(runs).count |-> Head(runs).val] \o SamplesOf(Tail(runs))

\* the sum of samples[lo..hi]^2, by halves
RECURSIVE SumOfSquares(_, _, _)
SumOfSquares(samples, lo, hi) ==
    IF lo > hi THEN 0
    ELSE IF lo = hi THEN samples[lo] * samples[lo]
    ELSE LET mid == (lo + hi) \div 2
         IN  SumOfSquares(samples, lo, mid) + SumOfSquares(samples, mid + 1, hi)

\* the number of samples whose absolute value is over 200
LoudSamples(samples) ==
    Cardinality({ i \in DOMAIN samples : samples[i] > 200 \/ samples[i] < -200 })

\* the fraction of loud samples is at least 0.01
RatioAtLeastOnePercent(samples) == 100 * LoudSamples(samples) >= Len(samples)

\* RMS > 200, as mean square > 200^2
RmsOver200(samples) ==
    SumOfSquares(samples, 1, Len(samples)) > 200 * 200 * Len(samples)

\* RMS < 200
RmsUnder200(samples) ==
    SumOfSquares(samples, 1, Len(samples)) < 200 * 200 * Len(samples)

EnergyApplied == pc = "energy_done" /\ IsSome(vad_info)

\* C11: for every non-empty sequence of 16-bit samples the energy gate
\* returns has_speech = true exactly when the fraction of samples with
\* |sample| > 200 is at least 0.01 and the RMS is over 200; when the RMS is
\* under 200 and the fraction under 0.01, has_speech is false.
C11_EnergyDecision ==
    EnergyApplied =>
        LET samples == SamplesOf(wavAudio.runs)
            info    == Get(vad_info)
        IN  /\ info.has_speech <=>
                   (RatioAtLeastOnePercent(samples) /\ RmsOver200(samples))
            /\ RmsUnder200(samples) /\ ~RatioAtLeastOnePercent(samples)
                   => ~info.has_speech

\* one click among silence: the RMS is over 200, the loud fraction is 1/101
C11_Witness ==
    /\ EnergyApplied
    /\ wavAudio.runs = << Run(2500, 1), Run(0, 100) >>
    /\ ~Get(vad_info).has_speech

\* C12: every canonical audio in which the samples with |sample| > 200 make
\* up at least 1% of all samples gets has_speech = true.
C12_LoudFractionIsSpeech ==
    EnergyApplied /\ RatioAtLeastOnePercent(SamplesOf(wavAudio.runs))
        => Get(vad_info).has_speech

\* C12, amended: every canonical audio in which the samples with
\* |sample| > 200 make up at least 1% of all samples and whose RMS is over
\* 200 gets has_speech = true.
C12_LoudFractionAndRmsIsSpeech ==
    /\ EnergyApplied
    /\ RatioAtLeastOnePercent(SamplesOf(wavAudio.runs))
    /\ RmsOver200(SamplesOf(wavAudio.runs))
    => Get(vad_info).has_speech

\* exactly one sample in a hundred is loud, and loud enough for the RMS
C12_Witness ==
    /\ EnergyApplied
    /\ wavAudio.runs = << Run(2500, 1), Run(0, 99) >>
    /\ Get(vad_info).has_speech

\* the canonical WAV holds no whole sample after its 44-byte header
NoSamples(audio) == audio.readable /\ NumSamples(audio.runs) = 0

\* C13: when the canonical WAV holds zero samples after its 44-byte header
\* (a file of at most 45 bytes included), the energy gate returns has_speech
\* = false with rms, peak and speech_ratio 0 and no error, and the request
\* short-circuits without invoking the engine.
C13_NoSamplesNoSpeech ==
    variant = "cpp_vad" /\ vadCalls = 1 /\ NoSamples(wavAudio) =>
        LET info == Get(vad_info)
        IN  /\ ~info.has_speech
            /\ info.rms_sq_num = 0
            /\ info.peak = 0
            /\ info.ratio_num = 0
            /\ info.error = None
            /\ engineCalls = 0
            /\ pc = "returned"
            /\ response.status = "success"
            /\ response.segments = Some(<< >>)

\* a 45-byte file: one payload byte, no whole sample
C13_Witness ==
    /\ variant = "cpp_vad"
    /\ vadCalls = 1
    /\ wavAudio = Audio(TRUE, << >>, 1)
    /\ pc = "returned"
    /\ engineCalls = 0
    /\ files = {}

\* a successful response of the in-process service
InProcessSuccess ==
    /\ variant = "faster"
    /\ pc = "returned"
    /\ response.status = "success"

\* C14: the output of the in-process speech-probability filter holds no
\* segment with no_speech_prob > 0.7, and filtering that output again
\* leaves it unchanged.
C14_FilterOutput ==
    InProcessSuccess =>
        LET segs  == Get(response.segments)
            again == FilterSegments(segs, [segments |-> << >>, full_text |-> << >>])
        IN  /\ \A i \in DOMAIN segs :
                 IsSome(segs[i].no_speech_prob) => Get(segs[i].no_speech_prob) <= 70
            /\ again.segments = segs
            /\ Strip(again.full_text) = Get(response.full_text)

\* the model yielded a segment at 0.9 and one at the threshold
C14_Witness ==
    /\ InProcessSuccess
    /\ \E i \in DOMAIN modelOut.segments :
         modelOut.segments[i].no_speech_prob = Some(90)
    /\ \E i \in DOMAIN Get(response.segments) :
         Get(response.segments)[i].no_speech_prob = Some(70)

\* a successful response built from what the engine emitted
EngineSuccess ==
    /\ variant \in CppVariants \cup {"faster"}
    /\ pc = "returned"
    /\ response.status = "success"
    /\ engineCalls = 1

OptFloat(o) == IF IsSome(o) THEN Some(Float(Get(o))) ELSE None

\* the segments the engine emitted, in its order: text, no_speech_prob when
\* the engine gives one, start and end when the engine gives them
RawSegments ==
    IF variant = "faster"
    THEN [i \in DOMAIN modelOut.segments |->
            LET seg == modelOut.segments[i]
            IN  [text |-> seg.text, no_speech_prob |-> seg.no_speech_prob,
                 start |-> Some(seg.start), end |-> Some(seg.end)]]
    ELSE LET trs == IF IsSome(jsonDoc.transcription)
                    THEN Get(jsonDoc.transcription) ELSE << >>
         IN  [i \in DOMAIN trs |->
                [text |-> IF IsSome(trs[i].text) THEN Get(trs[i].text) ELSE << >>,
                 no_speech_prob |-> None,
                 start |-> IF IsSome(trs[i].offsets)
                           THEN OptFloat(Get(trs[i].offsets).from) ELSE None,
                 end   |-> IF IsSome(trs[i].offsets)
                           THEN OptFloat(Get(trs[i].offsets).to) ELSE None]]

\* the returned segments: text, start, end
ReturnedSegments ==
    LET segs == Get(response.segments)
    IN  [i \in DOMAIN segs |->
           [text |-> segs[i].text, start |-> Some(segs[i].start),
            end |-> Some(segs[i].end)]]

\* a raw segment as it is to be returned: its text trimmed
Trimmed(raw) ==
    [i \in DOMAIN raw |->
       [text |-> Strip(raw[i].text), start |-> raw[i].start, end |-> raw[i].end]]

\* no_speech_prob is absent or at most 0.7
KeptByProb(r) == r.no_speech_prob = None \/ Get(r.no_speech_prob) <= 70

\* kept by the probability and, in the subprocess variants, not blank
KeptByProbAndText(r) ==
    /\ KeptByProb(r)
    /\ variant \in CppVariants => Strip(r.text) # << >>

RECURSIVE SpaceJoined(_)
SpaceJoined(segs) ==
    IF segs = << >> THEN << >>
    ELSE IF Len(segs) = 1 THEN segs[1].text
    ELSE segs[1].text \o << " " >> \o SpaceJoined(Tail(segs))

WellFormedIntervals(ts, n) ==
    /\ \A i \in DOMAIN ts : 0 <= ts[i].start /\ ts[i].start < ts[i].end /\ ts[i].end <= n
    /\ \A i, j \in DOMAIN ts : i < j => ts[i].end <= ts[j].start

\* C16: whatever the detector returns (overlapping, unsorted, empty-length
\* or out-of-bounds intervals included), the intervals the neural gate
\* splices are non-overlapping, sorted ascending by start, satisfy
\* 0 <= start < end and lie inside the audio.
C16_SplicedIntervalsWellFormed ==
    pc = "neural_done" => WellFormedIntervals(spliced, NumSamples(wavAudio.runs))

\* C17: every VAD decision has speech_ratio in [0,1], and 0 when the total
\* duration is 0; for the neural gate this holds for every list of
\* intervals the detector returns, and the speech duration never exceeds
\* the total duration.
C17_SpeechRatioInRange ==
    IsSome(vad_info) =>
        LET info == Get(vad_info)
        IN  IF info.strategy = "energy"
            THEN /\ 0 <= info.ratio_num /\ info.ratio_num <= info.ratio_den
                 /\ info.ratio_den > 0
            ELSE /\ IsSome(info.metrics)
                 /\ LET m == Get(info.metrics)
                    IN  /\ m.ratio_den > 0
                        /\ 0 <= m.ratio_num /\ m.ratio_num <= m.ratio_den
                        /\ m.total_samples = 0 => m.ratio_num = 0
                        /\ m.speech_samples <= m.total_samples

\* a successful response of a variant whose engine reports no total
\* duration (whisper-cli's JSON, openai-whisper's result)
SuccessWithoutEngineDuration ==
    /\ variant \in CppVariants \cup {"fixed"}
    /\ pc = "returned"
    /\ response.status = "success"
    /\ engineCalls = 1

\* the end time of each segment the engine emitted, where it gave one
EmittedEnds ==
    IF variant = "fixed"
    THEN [i \in DOMAIN modelOut.segments |-> Some(modelOut.segments[i].end)]
    ELSE LET trs == IF IsSome(jsonDoc.transcription)
                    THEN Get(jsonDoc.transcription) ELSE << >>
         IN  [i \in DOMAIN trs |->
                IF IsSome(trs[i].offsets) THEN OptFloat(Get(trs[i].offsets).to)
                                          ELSE None]

\* C18: when the engine reports no total duration, the returned duration is
\* the end time of the last segment the engine emitted, also when that
\* segment has empty text or is dropped by filtering, and 0.0 when the
\* engine emitted no segment.
C18_DurationIsLastEmittedEnd ==
    SuccessWithoutEngineDuration =>
        LET ends == EmittedEnds
        IN  IF ends = << >> THEN response.duration = Some(Float(0))
            ELSE IsSome(ends[Len(ends)]) => response.duration = ends[Len(ends)]

FloatParams ==
    {"temperature", "no_speech_threshold", "compression_ratio_threshold",
     "logprob_threshold"}

\* a value was supplied (the field is there and not empty) and it is not
\* the text of a number
UnparsableFloat(x) ==
    IsSome(x) /\ Get(x) # "" /\ Get(x) \notin DOMAIN FloatOfString

\* a value was supplied and it is neither "true" nor "false" in any case
UnparsableBool(x) ==
    IsSome(x) /\ Get(x) # "" /\ Get(x) \notin {"true", "True", "TRUE",
                                               "false", "False", "FALSE"}

HasUnparsableParam(p) ==
    \/ \E f \in FloatParams : UnparsableFloat(p[f])
    \/ UnparsableBool(p.condition_on_previous_text)

\* C19: a decoding parameter (temperature, no_speech_threshold,
\* condition_on_previous_text, compression_ratio_threshold,
\* logprob_threshold) whose string cannot be parsed to its type makes the
\* request fail with an error result; no default stands in for it.
C19_UnparsableParameterFails ==
    pc = "returned" /\ HasUnparsableParam(params) => response.status = "error"

\* an initial_prompt was supplied: the field is there and not empty
PromptSupplied == IsSome(initial_prompt) /\ Get(initial_prompt) # ""

\* C20: the prompt passed to the engine is the caller's initial_prompt when
\* one is supplied, the fixed domain vocabulary prompt when none is
\* supplied and language is "ja", and no prompt otherwise, for the
\* subprocess engines and the in-process engines alike.
C20_EnginePrompt ==
    engineCalls = 1 =>
        IF PromptSupplied THEN enginePrompt = initial_prompt
        ELSE IF language = "ja" THEN enginePrompt = Some(DomainPrompt(variant))
        ELSE enginePrompt \in {None, Some("")}

\* the request is waiting on the converter, the engine or a model call
WaitingOnProcess(r) == reqs[r].pc \in {"converting", "transcribing"}

\* the request has been received and its next step is the handler's
ReadyToRun(r) == reqs[r].pc \in {"arrived", "reading"}

\* C21: while one request is waiting on an external process or a model
\* call, the event loop is not blocked: another request that has been
\* received can make progress before that call ends.
C21_LoopNotBlocked ==
    \A r1, r2 \in Requests :
        r1 # r2 /\ WaitingOnProcess(r1) /\ ReadyToRun(r2) => LoopFree

\* the request holds temporary files: it was accepted and has not returned
InFlight(r) == reqs[r].pc \in {"reading", "converting", "transcribing"}

\* C22: the temporary paths of two concurrent requests (upload path, upload
\* path + ".wav", upload path + ".json", the "_speech.wav" path) are
\* disjoint whatever the upload extensions, and no request overwrites or
\* deletes a file of another request in flight: the upload of a request
\* in flight is on disk and is its own.
C22_PathsDisjoint ==
    /\ \A r1, r2 \in Requests :
         r1 # r2 /\ InFlight(r1) /\ InFlight(r2) =>
             PathsOfRequest(Get(reqs[r1].tmp_path))
                 \cap PathsOfRequest(Get(reqs[r2].tmp_path)) = {}
    /\ \A r \in Requests :
         InFlight(r) =>
             /\ Get(reqs[r].tmp_path) \in DOMAIN disk
             /\ disk[Get(reqs[r].tmp_path)].owner = r

\* the services with a VAD gate
GatedVariants == {"cpp_vad", "cpp_silero"}

\* Normalized before VADChecked before Transcribing: the gate runs only
\* after the converter exited with status 0, the engine only after a
\* decision with has_speech = true, and nothing runs twice
StagesInOrder ==
    /\ convCalls <= 1 /\ vadCalls <= 1 /\ engineCalls <= 1
    /\ pc \in {"received", "saved", "raised"} => convCalls = 0
    /\ pc \in {"converting", "converter_hung", "converted"} =>
           vadCalls = 0 /\ engineCalls = 0
    /\ vadCalls = 1 => convCalls = 1 /\ convResult.status = "ok"
    /\ engineCalls = 1 =>
           vadCalls = 1 /\ IsSome(vad_info) /\ Get(vad_info).has_speech
    /\ VadSaidNoSpeech => engineCalls = 0 /\ pc = "returned"

\* C23: within a request the stages occur only in the order Received,
\* Normalized, VADChecked, then Skipped or Transcribing, then Filtered,
\* Completed: the VAD gate runs only after the converter exited with
\* status 0, the engine only after a VAD decision with has_speech = true,
\* and each request ends in exactly one of Completed (status success) or
\* Failed (status error).
C23_StageOrder ==
    variant \in GatedVariants =>
        /\ StagesInOrder
        /\ Terminal => pc = "returned" /\ response.status \in {"success", "error"}

\* the canonical path of the gated request, and the file _speech.wav of it
CanonicalPath == WavPath(Get(reqs[NeuralRequest].tmp_path))

GateRan == pc = "neural_input" /\ pc' = "neural_done"

\* the canonical WAV, its content and its entry on disk, is as before
CanonicalUntouched ==
    /\ wavAudio' = wavAudio
    /\ CanonicalPath \in DOMAIN disk'
    /\ disk'[CanonicalPath] = disk[CanonicalPath]

\* the detector input differs from the canonical samples only for a peak
\* over 0 and under 0.1 of full scale
RescaledOnlyWhenQuiet ==
    IsSome(vadInput') /\ Get(vadInput') # wavAudio.runs =>
        /\ Peak(wavAudio.runs) > 0
        /\ Peak(wavAudio.runs) * 10 < FULL_SCALE
        /\ Peak(Get(vadInput')) * 2 = FULL_SCALE

\* a speech-only file is written, at another path than the canonical one,
\* exactly when speech was found
SpeechFileApart ==
    LET info  == Get(vad_info')
        found == info.has_speech /\ info.error = None
    IN  /\ found <=> IsSome(speechAudio')
        /\ found => /\ DOMAIN disk' \ DOMAIN disk # {}
                    /\ CanonicalPath \notin DOMAIN disk' \ DOMAIN disk
                    /\ \A p \in DOMAIN disk : disk'[p] = disk[p]
        /\ ~found => disk' = disk

\* C24: the neural VAD never modifies the canonical WAV file: rescaling
\* (only when 0 < peak < 0.1, never when peak is 0) changes only the
\* detector input, so the speech-only file holds the canonical samples of
\* the spliced intervals; it is written to a path different from the
\* canonical one; when no speech is found or the detector fails no
\* speech-only file is produced and the canonical content is unchanged.
C24_RescaleOnlyDetectorInput ==
    [][ GateRan =>
          /\ CanonicalUntouched
          /\ RescaledOnlyWhenQuiet
          /\ SpeechFileApart
          /\ IsSome(speechAudio') =>
                 Get(speechAudio') =
                     save_wav_scipy(collect_chunks(spliced', wavAudio.runs)) ]_vars

\* C24, amended: the neural VAD never modifies the canonical WAV file:
\* rescaling (only when 0 < peak < 0.1, never when peak is 0) changes the
\* in-memory detector input and, when speech is found, the samples written
\* to the speech-only file, which are spliced from the rescaled input; the
\* speech-only file is written to a path different from the canonical one;
\* when no speech is found or the detector fails no speech-only file is
\* produced and the canonical content is unchanged.
C24_CanonicalNeverModified ==
    [][ GateRan =>
          /\ CanonicalUntouched
          /\ RescaledOnlyWhenQuiet
          /\ SpeechFileApart
          /\ IsSome(speechAudio') =>
                 Get(speechAudio') =
                     save_wav_scipy(collect_chunks(spliced', Get(vadInput'))) ]_vars

\* a quiet upload named *.wav was rescaled to half of full scale, speech
\* was found and written next to the canonical file, which is as converted
C24_Witness ==
    /\ pc = "neural_done"
    /\ reqs[NeuralRequest].ext = << ".wav" >>
    /\ wavAudio.runs = << Run(400, 320) >>
    /\ vadInput = Some(<< Run(16384, 320) >>)
    /\ spliced = << Interval(0, 160) >>
    /\ speechAudio = Some(<< Run(16383, 160) >>)
    /\ SpeechPath(CanonicalPath) \in DOMAIN disk
    /\ SpeechPath(CanonicalPath) # CanonicalPath
    /\ disk[CanonicalPath] = File(NeuralRequest, "wav")

\* the text has a character that is not a space
HasInk(t) == \E i \in DOMAIN t : t[i] # " "

\* no space at either end
NoOuterSpace(t) == t = << >> \/ (t[1] # " " /\ t[Len(t)] # " ")

\* a success response of a subprocess variant
CppSuccess ==
    /\ variant \in CppVariants
    /\ pc = "returned"
    /\ response.status = "success"

\* the side-file's segments whose text has a character that is not a space
InkedRaw ==
    LET trs == IF IsSome(jsonDoc.transcription) THEN Get(jsonDoc.transcription)
               ELSE << >>
    IN  SelectSeq(trs, LAMBDA seg : IsSome(seg.text) /\ HasInk(Get(seg.text)))

\* C25: in the subprocess variants every segment of a success response has
\* non-empty trimmed text, segments whose text is empty after trimming are
\* in neither segments nor full_text, and full_text is empty exactly when
\* segments is empty.
C25_NoBlankSegments ==
    CppSuccess =>
        LET segs == Get(response.segments)
            text == Get(response.full_text)
        IN  /\ \A i \in DOMAIN segs : HasInk(segs[i].text) /\ NoOuterSpace(segs[i].text)
            /\ engineCalls = 1 => Len(segs) = Len(InkedRaw)
            /\ text = SpaceJoined(segs)
            /\ text = << >> <=> segs = << >>

\* the engine wrote a segment "b" and then a blank one: one segment and
\* the text "b" are returned
C25_Witness ==
    /\ CppSuccess
    /\ engineCalls = 1
    /\ IsSome(jsonDoc.transcription)
    /\ Len(Get(jsonDoc.transcription)) = 2
    /\ Get(jsonDoc.transcription)[1].text = Some(<< "b" >>)
    /\ Get(jsonDoc.transcription)[2].text = Some(<< " " >>)
    /\ Len(Get(response.segments)) = 1
    /\ Get(response.full_text) = << "b" >>

====
